---- MODULE Spec2Model ----
(***************************************************************************)
(* flare_bypasser.AsyncClient: an httpx.AsyncClient wrapper that detects   *)
(* Cloudflare block / challenge pages, asks an external solver for a       *)
(* session (user-agent + cookies) and repeats the request.                 *)
(*                                                                         *)
(* One client instance, its session state (_user_agent, the cookie jar of  *)
(* _http_client), and the coroutines that run get/post on it.  Each await  *)
(* of the source is a position of the coroutine (pc); the code between two *)
(* awaits is one action.  A second instance of the class (peer) shares the *)
(* class attributes with the first and has a session of its own.           *)
(***************************************************************************)
EXTENDS Integers, Sequences, FiniteSets, TLC

\* ------------------------------------------------------------------------
\* Bounds of the model
\* ------------------------------------------------------------------------
MaxCookies == 2      \* longest cookie list in a solver answer
MaxPools == 2        \* httpx.AsyncClient objects created by one instance
MaxLines == 3        \* most lines of a page the classification is tried on

\* ------------------------------------------------------------------------
\* Program constants
\* ------------------------------------------------------------------------
\* class attribute _user_agent (the base user-agent)
DefaultUserAgent ==
  "Mozilla/5.0 (X11; Linux x86_64) AppleWebKit/537.36 (KHTML, like Gecko) Chrome/131.0.0.0 Safari/537.36"

\* class attribute _max_tries
max_tries == 2

\* "maxTimeout" of the solver request
maxTimeout == 60000

\* str(n) for the small integers the code formats into messages
Str(n) ==
  CASE n = 0 -> "0" [] n = 1 -> "1" [] n = 2 -> "2" [] n = 3 -> "3"
    [] n = 4 -> "4" [] n = 200 -> "200" [] n = 403 -> "403"
    [] n = 500 -> "500" [] n = 503 -> "503" [] OTHER -> "n"

\* ------------------------------------------------------------------------
\* Responses of the protected site and their classification
\* ------------------------------------------------------------------------
\* A body is the set of lines of the page; the empty set is the empty text.
Lines ==
  { "<title>Just a moment...</title>",
    "Just a moment...",
    "<title>Access denied | Cloudflare</title>",
    "<title>Access denied</title>",
    "<title>IP banned</title>",
    "Cloudflare Ray ID",
    "<title>Attention Required! | Cloudflare</title>",
    "<title>Attention required !</title>",
    "<title>Captcha Challenge</title>",
    "<title>DDoS-Guard</title>",
    "<h1>Forbidden</h1>" }

\* str.lower() of one line
LowerLine(l) ==
  CASE l = "<title>Just a moment...</title>" -> "<title>just a moment...</title>"
    [] l = "Just a moment..." -> "just a moment..."
    [] l = "<title>Access denied | Cloudflare</title>" -> "<title>access denied | cloudflare</title>"
    [] l = "<title>Access denied</title>" -> "<title>access denied</title>"
    [] l = "<title>IP banned</title>" -> "<title>ip banned</title>"
    [] l = "Cloudflare Ray ID" -> "cloudflare ray id"
    [] l = "<title>Attention Required! | Cloudflare</title>" -> "<title>attention required! | cloudflare</title>"
    [] l = "<title>Attention required !</title>" -> "<title>attention required !</title>"
    [] l = "<title>Captcha Challenge</title>" -> "<title>captcha challenge</title>"
    [] l = "<title>DDoS-Guard</title>" -> "<title>ddos-guard</title>"
    [] l = "<h1>Forbidden</h1>" -> "<h1>forbidden</h1>"
    [] OTHER -> l

\* response.text.lower()
Lower(text) == { LowerLine(l) : l \in text }

\* the marker phrases that are substrings of a line (case-sensitive `in`)
PhrasesIn(l) ==
  CASE l = "<title>just a moment...</title>" -> {"just a moment..."}
    [] l = "just a moment..." -> {"just a moment..."}
    [] l = "<title>access denied | cloudflare</title>" -> {"access denied", "cloudflare"}
    [] l = "<title>access denied</title>" -> {"access denied"}
    [] l = "<title>ip banned</title>" -> {"ip banned"}
    [] l = "cloudflare ray id" -> {"cloudflare"}
    [] l = "<title>attention required! | cloudflare</title>" -> {"attention required!", "cloudflare"}
    [] l = "<title>captcha challenge</title>" -> {"captcha challenge"}
    [] l = "<title>ddos-guard</title>" -> {"ddos-guard"}
    [] OTHER -> {}

\* the title patterns of the source that re.search finds in a line, each
\* named by the phrase it looks for
TitlesIn(l) ==
  CASE l = "<title>just a moment...</title>" -> {"just a moment..."}
    [] l = "<title>access denied | cloudflare</title>" -> {"access denied"}
    [] l = "<title>ip banned</title>" -> {"ip banned"}
    [] l = "<title>attention required! | cloudflare</title>" -> {"attention required!"}
    [] l = "<title>attention required !</title>" -> {"attention required!"}
    [] l = "<title>captcha challenge</title>" -> {"captcha challenge"}
    [] l = "<title>ddos-guard</title>" -> {"ddos-guard"}
    [] OTHER -> {}

\* phrase in response_text
Contains(text, phrase) == \E l \in text : phrase \in PhrasesIn(l)

\* re.search(<title pattern of phrase>, response_text)
TitleSearch(text, phrase) == \E l \in text : phrase \in TitlesIn(l)

\* content-type values: the header as a sequence of ";"-separated parts,
\* <<>> when the response has no content-type header
HtmlType == <<"text/html", "charset=utf-8">>
JsonType == <<"application/json">>
NoType == <<>>

\* response.headers.get('content-type', '').startswith('text/html')
StartsWithHtml(ctype) == Len(ctype) > 0 /\ ctype[1] = "text/html"

\* IsCandidate without the look at the content-type
IsCandidate_AnyType(r) == r.status_code = 403 /\ r.text # {}

\* the condition that opens the block/challenge checks
IsCandidate(r) == r.status_code = 403 /\ StartsWithHtml(r.content_type) /\ r.text # {}

\* "cloud flare unsolvable block"
IsHardBlock(text) ==
  \/ Contains(text, "access denied") /\ TitleSearch(text, "access denied")
  \/ /\ Contains(text, "ip banned")
     /\ Contains(text, "cloudflare")
     /\ TitleSearch(text, "ip banned")

\* "cloud flare block" (a solvable challenge)
IsChallenge(text) ==
  \/ Contains(text, "just a moment...") /\ TitleSearch(text, "just a moment...")
  \/ Contains(text, "attention required!") /\ TitleSearch(text, "attention required!")
  \/ Contains(text, "captcha challenge") /\ TitleSearch(text, "captcha challenge")
  \/ Contains(text, "ddos-guard") /\ TitleSearch(text, "ddos-guard")

\* Classify with the two checks in the other order
Classify_ChallengeFirst(r) ==
  IF ~IsCandidate(r) THEN "OK"
  ELSE IF IsChallenge(Lower(r.text)) THEN "CHALLENGE"
  ELSE IF IsHardBlock(Lower(r.text)) THEN "HARD_BLOCK"
  ELSE "UNRELATED_403"

\* what _request does with a response, as one of the four tags of the design
Classify(r) ==
  IF ~IsCandidate(r) THEN "OK"
  ELSE IF IsHardBlock(Lower(r.text)) THEN "HARD_BLOCK"
  ELSE IF IsChallenge(Lower(r.text)) THEN "CHALLENGE"
  ELSE "UNRELATED_403"

\* The answers of the protected site the model draws from: one of each kind
\* the classification distinguishes, two of them carrying a Set-Cookie.
NoCookie == [name |-> "", value |-> "", domain |-> "", path |-> "",
             port |-> "None", secure |-> FALSE, expires |-> "None"]
SiteCookie == [name |-> "sid", value |-> "s1", domain |-> "example.com", path |-> "/",
               port |-> "None", secure |-> TRUE, expires |-> "None"]

Response(status, ctype, text, cookie) ==
  [status_code |-> status, content_type |-> ctype, text |-> text, set_cookie |-> cookie]

SiteResponses ==
  { Response(200, HtmlType, {"<title>Just a moment...</title>"}, SiteCookie),
    Response(403, JsonType, {"<title>Just a moment...</title>"}, NoCookie),
    Response(403, HtmlType, {}, NoCookie),
    Response(403, HtmlType, {"<h1>Forbidden</h1>"}, NoCookie),
    Response(403, HtmlType, {"<title>Just a moment...</title>"}, NoCookie),
    Response(403, HtmlType, {"<title>DDoS-Guard</title>", "<h1>Forbidden</h1>"}, SiteCookie),
    Response(403, HtmlType, {"<title>Access denied | Cloudflare</title>"}, NoCookie),
    Response(403, HtmlType,
             {"<title>IP banned</title>", "Cloudflare Ray ID", "<title>Captcha Challenge</title>"},
             NoCookie) }

\* the value of `response` before the first answer has arrived
NoResponse == Response(0, NoType, {}, NoCookie)

\* ------------------------------------------------------------------------
\* The cookie jar (self._http_client.cookies)
\* ------------------------------------------------------------------------
\* A jar is a set of cookies; http.cookiejar files a cookie under
\* domain, path and name, so setting one replaces the cookie filed there.
SameKey(c, name, domain, path) == c.name = name /\ c.domain = domain /\ c.path = path

\* CookieJar.set_cookie
JarSetCookie(jar, cookie) ==
  { c \in jar : ~SameKey(c, cookie.name, cookie.domain, cookie.path) } \cup {cookie}

\* Cookies.set that files every cookie under the root path
CookiesSet_RootPath(jar, name, value, domain, path) ==
  JarSetCookie(jar, [name |-> name, value |-> value, domain |-> domain, path |-> "/",
                     port |-> "None", secure |-> FALSE, expires |-> "None"])

\* httpx.Cookies.set(name, value, domain, path)
CookiesSet(jar, name, value, domain, path) ==
  JarSetCookie(jar, [name |-> name, value |-> value, domain |-> domain, path |-> path,
                     port |-> "None", secure |-> FALSE, expires |-> "None"])

\* Cookies.extract_cookies(response), done by the transport for every answer
ExtractCookies(jar, r) ==
  IF r.set_cookie = NoCookie THEN jar ELSE JarSetCookie(jar, r.set_cookie)

\* dict.get(key, default)
Get(d, key, default) == IF key \in DOMAIN d THEN d[key] ELSE default

\* ------------------------------------------------------------------------
\* Answers of the solver
\* ------------------------------------------------------------------------
SolverUserAgents == {"UA1", "UA2"}

\* cookie entries of a solution; the last two lack a required key
CookieEntries ==
  { [name |-> "cf_clearance", value |-> "v1"],
    [name |-> "cf_clearance", value |-> "v2"],
    [name |-> "cf_clearance", value |-> "v1", domain |-> "example.com", path |-> "/app"],
    [value |-> "v1"],
    [name |-> "cf_clearance"] }

CookieLists == UNION { [1..n -> CookieEntries] : n \in 0..MaxCookies }

Solutions ==
  { [userAgent |-> ua, cookies |-> cs] : ua \in SolverUserAgents, cs \in CookieLists }
    \cup { [userAgent |-> ua] : ua \in SolverUserAgents }
    \cup { [cookies |-> <<>>] }

SolverAnswers ==
  { [status_code |-> 200, json |-> [solution |-> s]] : s \in Solutions }
    \cup { [status_code |-> 200, json |-> [status |-> "error"]],
           [status_code |-> 500, json |-> [status |-> "error"]] }

\* ------------------------------------------------------------------------
\* Calls and their arguments
\* ------------------------------------------------------------------------
\* the coroutines that call get/post on the instance
Calls == {"c1", "c2"}

Url == "https://example.com/a"
SolveUrl == "https://example.com/solve"
None == "None"

\* self._kwargs.get('proxy', None): the instance is built without a proxy
Proxy == None

\* header mappings: functions from header name to value
EmptyHeaders == [k \in {} |-> ""]

\* the mappings a caller passes as `headers`; a caller that passes none
\* makes the call work on the default mapping of _request
CallerHeaders ==
  { [k \in {"accept", "user-agent", "cache-control"} |->
       CASE k = "accept" -> "text/html"
         [] k = "user-agent" -> "caller-agent"
         [] OTHER -> "max-age=60"] }

\* d[key] = value on a copy of d
SetItem(d, key, value) ==
  [k \in DOMAIN d \cup {key} |-> IF k = key THEN value ELSE d[k]]

\* the headers of one attempt (copy.copy(headers), then the two assignments)
SendHeaders(headers, ua) ==
  SetItem(SetItem(headers, "user-agent", ua), "cache-control", "no-cache")

\* lines 68-70 written on the mapping itself, without the copy
AttemptHeaders_InPlace(headers, ua) ==
  [sent |-> SendHeaders(headers, ua), headers |-> SendHeaders(headers, ua)]

\* lines 68-70 on the mapping `headers` of the call: the headers that are
\* sent, and the mapping as the three lines leave it (they write on a copy)
AttemptHeaders(headers, ua) ==
  [sent |-> SendHeaders(headers, ua), headers |-> headers]

\* the url the transport is called with
SendTarget(a) == a.url

\* SolveTarget that forgets solve_url
SolveTarget_AlwaysUrl(a) == a.url

\* url if not solve_url else solve_url
SolveTarget(a) == IF a.solve_url = None THEN a.url ELSE a.solve_url

NoArgs == [method |-> "", url |-> "", solve_url |-> None, headers |-> EmptyHeaders]

\* the solver request and the values that stand for "no value"
NoRequest == [maxTimeout |-> 0, url |-> "", cookies |-> {}, proxy |-> None]
NoJson == [none |-> TRUE]

\* SolveSendCookies that sends only the cookies of the protection layer
SolveSendCookies_ClearanceOnly(jar) ==
  { [name |-> c.name, value |-> c.value, domain |-> c.domain, path |-> c.path,
     port |-> c.port, secure |-> c.secure, expires |-> c.expires] :
       c \in { k \in jar : k.name = "cf_clearance" } }

\* solve_send_cookies: one dict per cookie of the jar
SolveSendCookies(jar) ==
  { [name |-> c.name, value |-> c.value, domain |-> c.domain, path |-> c.path,
     port |-> c.port, secure |-> c.secure, expires |-> c.expires] : c \in jar }

\* solver_request
SolverRequest(url, jar, client) ==
  [maxTimeout |-> maxTimeout,
   url |-> url,
   cookies |-> IF client # 0 THEN SolveSendCookies(jar) ELSE {},
   proxy |-> Proxy]

\* ------------------------------------------------------------------------
\* Exceptions
\* ------------------------------------------------------------------------
\* An exception: its class, the parts its message is concatenated from, and
\* for the no-solution message the url and the two json.dumps it embeds.
Error(type, text) ==
  [type |-> type, text |-> text, url |-> "", response |-> NoJson, request |-> NoRequest]

NoError == Error("", <<>>)

CloudFlareBlocked == Error("AsyncClient.CloudFlareBlocked", <<"IP blocked by cloud flare">>)

MaxTriesExceeded ==
  Error("AsyncClient.Exception",
        <<"Can't solve challenge: challenge got ", Str(max_tries),
          " times ... (max tries exceded)">>)

SolverUnavailable(status) ==
  Error("AsyncClient.Exception", <<"Solver is unavailable: status_code = ", Str(status)>>)

\* the no-solution message without the request it was an answer to
NoSolution_WithoutRequest(url, response_json, solver_request) ==
  [type |-> "AsyncClient.Exception",
   text |-> <<"Can't solve challenge: no solution in response for '", url, "': ",
              "response: ">>,
   url |-> url, response |-> response_json, request |-> NoRequest]

NoSolution(url, response_json, solver_request) ==
  [type |-> "AsyncClient.Exception",
   text |-> <<"Can't solve challenge: no solution in response for '", url, "': ",
              "response: ", " on request: ">>,
   url |-> url, response |-> response_json, request |-> solver_request]

KeyError(key) == Error("KeyError", <<key>>)

AttributeError == Error("AttributeError", <<"'NoneType' object has no attribute 'cookies'">>)

CancelledError == Error("asyncio.CancelledError", <<>>)

\* ------------------------------------------------------------------------
\* Applying a solution (the tail of _solve_challenge)
\* ------------------------------------------------------------------------
\* the loop over solver_cookies from entry i on: the jar it leaves and the
\* exception that ended it (NoError when it ran to the end)
RECURSIVE SetSolverCookies(_, _, _, _)
SetSolverCookies(jar, cookies, i, client) ==
  IF i > Len(cookies) THEN [jar |-> jar, err |-> NoError]
  ELSE IF client = 0 THEN [jar |-> jar, err |-> AttributeError]
  ELSE IF "name" \notin DOMAIN cookies[i] THEN [jar |-> jar, err |-> KeyError("name")]
  ELSE IF "value" \notin DOMAIN cookies[i] THEN [jar |-> jar, err |-> KeyError("value")]
  ELSE SetSolverCookies(
         CookiesSet(jar, cookies[i].name, cookies[i].value,
                    Get(cookies[i], "domain", ""), Get(cookies[i], "path", "/")),
         cookies, i + 1, client)

\* ApplySolution that files the cookies of the solution in an empty jar:
\* the solver's list replaces the cookies of the session
ApplySolution_FreshJar(ua, jar, solution, client) ==
  IF "userAgent" \notin DOMAIN solution
    THEN [user_agent |-> ua, jar |-> jar, err |-> KeyError("userAgent")]
  ELSE IF "cookies" \notin DOMAIN solution
    THEN [user_agent |-> solution.userAgent, jar |-> jar, err |-> KeyError("cookies")]
  ELSE LET r == SetSolverCookies({}, solution.cookies, 1, client)
       IN [user_agent |-> solution.userAgent, jar |-> r.jar, err |-> r.err]

\* what the code after the `solution` check does to the session:
\* the user-agent, the jar and the exception it ends with
ApplySolution(ua, jar, solution, client) ==
  IF "userAgent" \notin DOMAIN solution
    THEN [user_agent |-> ua, jar |-> jar, err |-> KeyError("userAgent")]
  ELSE IF "cookies" \notin DOMAIN solution
    THEN [user_agent |-> solution.userAgent, jar |-> jar, err |-> KeyError("cookies")]
  ELSE LET r == SetSolverCookies(jar, solution.cookies, 1, client)
       IN [user_agent |-> solution.userAgent, jar |-> r.jar, err |-> r.err]

\* the assignment of line 163 made on the class: every instance without
\* an attribute of its own reads the new value
StoreUserAgent_OnClass(class_attr, value) == [class |-> value, instance |-> value]

\* self._user_agent = value: the attribute of the instance is set, the
\* class attribute _user_agent stays as it is
StoreUserAgent(class_attr, value) == [class |-> class_attr, instance |-> value]

\* ------------------------------------------------------------------------
\* Decisions of the retry loop
\* ------------------------------------------------------------------------
\* Verdict with the hard-block check lost: a hard block goes to the solver
Verdict_HardBlockSolved(r) ==
  CASE Classify(r) \in {"HARD_BLOCK", "CHALLENGE"} -> "solve"
    [] OTHER -> "return"

\* Verdict that takes every 403 page left over for a challenge
Verdict_UnrelatedSolved(r) ==
  CASE Classify(r) = "HARD_BLOCK" -> "raise"
    [] Classify(r) \in {"CHALLENGE", "UNRELATED_403"} -> "solve"
    [] OTHER -> "return"

\* Verdict that returns the challenge page instead of solving it
Verdict_ChallengeReturned(r) ==
  CASE Classify(r) = "HARD_BLOCK" -> "raise"
    [] OTHER -> "return"

\* what _request does after an answer: raise CloudFlareBlocked, call
\* _solve_challenge and continue, or return the response
Verdict(r) ==
  CASE Classify(r) = "HARD_BLOCK" -> "raise"
    [] Classify(r) = "CHALLENGE" -> "solve"
    [] OTHER -> "return"

\* HasNextTry with the loop bound off by one
HasNextTry_OneMore(i) == i + 1 <= max_tries

\* range(self._max_tries) has a value after try_i
HasNextTry(i) == i + 1 < max_tries

\* SolverStatusOk that takes every answer of the solver for a good one
SolverStatusOk_Any(status) == status >= 200

\* solver_response.status_code != 200 is not the case
SolverStatusOk(status) == status = 200

\* "solution" in response_json
HasSolution(json) == "solution" \in DOMAIN json

\* ------------------------------------------------------------------------
\* State
\* ------------------------------------------------------------------------
VARIABLES
  user_agent,      \* self._user_agent
  http_client,     \* self._http_client: 0 for None, else the number of the pool
  created,         \* number of httpx.AsyncClient pools the instance has created
  released,        \* the pools whose __aexit__ has run
  jar,             \* self._http_client.cookies (the jar of the current pool)
  pc,              \* per call: where the coroutine stands
  args,            \* per call: method, url, solve_url, headers of the caller
  try_i,           \* per call: the loop variable
  send_headers,    \* per call: the headers of the last attempt sent
  response,        \* per call: the last answer of the site
  result,          \* per call: the value get/post returned
  err,             \* per call: the exception get/post ended with
  solver_request,  \* per call: the request posted to the solver
  answer,          \* per call: the solver answer that was applied or that the
                   \*   message of the exception reports
  log,             \* per call: what the call has done so far, in order
  solved_ua,       \* userAgent of the last solve that ran to its end
  solved_pool,     \* the current pool, once a solve on it ran to its end (else 0)
  send_url,        \* per call: the url of the last attempt sent
  default_headers, \* the mapping made once for `headers = {}` of _request
  headers_given,   \* per call: the caller passed a mapping as `headers`
  caller_headers,  \* per call: the mapping of the caller as it is now
  class_user_agent,\* AsyncClient._user_agent, the attribute of the class
  peer             \* a second instance of AsyncClient in the same process

\* the state of the headers mappings, and of the class and the second instance
headerVars == << default_headers, headers_given, caller_headers >>
peerVars == << class_user_agent, peer >>

vars == << user_agent, http_client, created, released, jar, pc, args, try_i,
           send_headers, response, result, err, solver_request, answer, log,
           solved_ua, solved_pool, send_url, headerVars, peerVars >>

\* the second instance before it is constructed; "unset" stands for an
\* instance without a _user_agent attribute of its own
NoPeer == [made |-> FALSE, user_agent |-> "unset", http_client |-> 0, jar |-> {}]

NoAnswer == [status_code |-> 0, json |-> NoJson]

InFlight == {"transport", "solver", "solver_exit"}

Init ==
  /\ user_agent = DefaultUserAgent
  /\ http_client = 0
  /\ created = 0
  /\ released = {}
  /\ jar = {}
  /\ pc = [c \in Calls |-> "idle"]
  /\ args = [c \in Calls |-> NoArgs]
  /\ try_i = [c \in Calls |-> 0]
  /\ send_headers = [c \in Calls |-> EmptyHeaders]
  /\ response = [c \in Calls |-> NoResponse]
  /\ result = [c \in Calls |-> NoResponse]
  /\ err = [c \in Calls |-> NoError]
  /\ solver_request = [c \in Calls |-> NoRequest]
  /\ answer = [c \in Calls |-> NoAnswer]
  /\ log = [c \in Calls |-> <<>>]
  /\ solved_ua = DefaultUserAgent
  /\ solved_pool = 0
  /\ send_url = [c \in Calls |-> ""]
  /\ default_headers = EmptyHeaders
  /\ headers_given = [c \in Calls |-> FALSE]
  /\ caller_headers = [c \in Calls |-> EmptyHeaders]
  /\ class_user_agent = DefaultUserAgent
  /\ peer = NoPeer

\* ------------------------------------------------------------------------
\* Scope of the instance
\* ------------------------------------------------------------------------
\* __aenter__: drop the reference to the previous pool, create and enter a new one
Open ==
  /\ created < MaxPools
  /\ created' = created + 1
  /\ http_client' = created + 1
  /\ jar' = {}
  /\ solved_pool' = 0
  /\ UNCHANGED << user_agent, released, pc, args, try_i, send_headers, response,
                  result, err, solver_request, answer, log, solved_ua,
                  send_url, headerVars, peerVars >>

\* __aexit__: leave the current pool, if there is one
Close ==
  /\ IF http_client # 0
       THEN /\ released' = released \cup {http_client}
            /\ http_client' = 0
            /\ jar' = {}
            /\ solved_pool' = 0
       ELSE UNCHANGED << released, http_client, jar, solved_pool >>
  /\ UNCHANGED << user_agent, created, pc, args, try_i, send_headers, response,
                  result, err, solver_request, answer, log, solved_ua,
                  send_url, headerVars, peerVars >>

\* ------------------------------------------------------------------------
\* get / post
\* ------------------------------------------------------------------------
\* get/post up to the first await: _init_client, then the first attempt is
\* sent.  `headers` is the mapping the call works on: the caller's when
\* `given`, else the default mapping of _request.
Call(c, method, url, solve_url, headers, given) ==
  /\ pc[c] \notin InFlight
  /\ IF http_client = 0
       THEN /\ created < MaxPools
            /\ created' = created + 1
            /\ http_client' = created + 1
            /\ jar' = {}
            /\ solved_pool' = 0
       ELSE UNCHANGED << created, http_client, jar, solved_pool >>
  /\ args' = [args EXCEPT ![c] =
                [method |-> method, url |-> url, solve_url |-> solve_url, headers |-> headers]]
  /\ try_i' = [try_i EXCEPT ![c] = 0]
  /\ headers_given' = [headers_given EXCEPT ![c] = given]
  /\ LET a == AttemptHeaders(headers, user_agent) IN
       /\ send_headers' = [send_headers EXCEPT ![c] = a.sent]
       /\ caller_headers' = [caller_headers EXCEPT ![c] = a.headers]
       /\ default_headers' = IF given THEN default_headers ELSE a.headers
  /\ send_url' = [send_url EXCEPT ![c] = SendTarget(args'[c])]
  /\ pc' = [pc EXCEPT ![c] = "transport"]
  /\ log' = [log EXCEPT ![c] = <<"send">>]
  /\ response' = [response EXCEPT ![c] = NoResponse]
  /\ result' = [result EXCEPT ![c] = NoResponse]
  /\ err' = [err EXCEPT ![c] = NoError]
  /\ solver_request' = [solver_request EXCEPT ![c] = NoRequest]
  /\ answer' = [answer EXCEPT ![c] = NoAnswer]
  /\ UNCHANGED << user_agent, released, solved_ua, peerVars >>

\* get/post called with a mapping of the caller as `headers`
Request(c, method, url, solve_url, headers) ==
  Call(c, method, url, solve_url, headers, TRUE)

\* get/post called without `headers`
RequestDefault(c, method, url, solve_url) ==
  Call(c, method, url, solve_url, default_headers, FALSE)

\* the answer r of the site arrives: the transport files its cookie, then
\* the code from the classification to the next await, return or raise
TransportRespond(c, r) ==
  /\ pc[c] = "transport"
  /\ response' = [response EXCEPT ![c] = r]
  /\ jar' = ExtractCookies(jar, r)
  /\ CASE Verdict(r) = "raise" ->
            /\ pc' = [pc EXCEPT ![c] = "raised"]
            /\ err' = [err EXCEPT ![c] = CloudFlareBlocked]
            /\ log' = [log EXCEPT ![c] = @ \o <<Classify(r), "raise">>]
            /\ UNCHANGED << result, solver_request >>
       [] Verdict(r) = "solve" ->
            /\ pc' = [pc EXCEPT ![c] = "solver"]
            /\ solver_request' = [solver_request EXCEPT ![c] =
                 SolverRequest(SolveTarget(args[c]), jar', http_client)]
            /\ log' = [log EXCEPT ![c] = @ \o <<Classify(r), "solve">>]
            /\ UNCHANGED << result, err >>
       [] OTHER ->
            /\ pc' = [pc EXCEPT ![c] = "returned"]
            /\ result' = [result EXCEPT ![c] = r]
            /\ log' = [log EXCEPT ![c] = @ \o <<Classify(r), "return">>]
            /\ UNCHANGED << err, solver_request >>
  /\ UNCHANGED << user_agent, http_client, created, released, args, try_i,
                  send_headers, answer, solved_ua,
                  solved_pool, send_url, headerVars, peerVars >>

\* the answer a of the solver arrives: the rest of the body of _solve_challenge
SolverRespond(c, a) ==
  /\ pc[c] = "solver"
  /\ solver_request' = [solver_request EXCEPT ![c] = NoRequest]
  /\ IF ~SolverStatusOk(a.status_code) THEN
       /\ pc' = [pc EXCEPT ![c] = "raised"]
       /\ err' = [err EXCEPT ![c] = SolverUnavailable(a.status_code)]
       /\ log' = [log EXCEPT ![c] = @ \o <<"solver_error", "raise">>]
       /\ answer' = [answer EXCEPT ![c] = a]
       /\ UNCHANGED << user_agent, jar, solved_ua, solved_pool,
                       class_user_agent >>
     ELSE IF ~HasSolution(a.json) THEN
       /\ pc' = [pc EXCEPT ![c] = "raised"]
       /\ err' = [err EXCEPT ![c] =
            NoSolution(SolveTarget(args[c]), a.json, solver_request[c])]
       /\ log' = [log EXCEPT ![c] = @ \o <<"solver_error", "raise">>]
       /\ answer' = [answer EXCEPT ![c] = a]
       /\ UNCHANGED << user_agent, jar, solved_ua, solved_pool,
                       class_user_agent >>
     ELSE
       LET s == ApplySolution(user_agent, jar, a.json.solution, http_client)
           w == StoreUserAgent(class_user_agent, s.user_agent) IN
       /\ user_agent' = w.instance
       /\ class_user_agent' = w.class
       /\ jar' = s.jar
       /\ IF s.err = NoError
            THEN /\ pc' = [pc EXCEPT ![c] = "solver_exit"]
                 /\ answer' = [answer EXCEPT ![c] = a]
                 /\ solved_ua' = s.user_agent
                 /\ solved_pool' = http_client
                 /\ log' = [log EXCEPT ![c] = @ \o <<"applied">>]
                 /\ UNCHANGED err
            ELSE /\ pc' = [pc EXCEPT ![c] = "raised"]
                 /\ err' = [err EXCEPT ![c] = s.err]
                 /\ log' = [log EXCEPT ![c] = @ \o <<"solver_error", "raise">>]
                 /\ UNCHANGED << answer, solved_ua, solved_pool >>
  /\ UNCHANGED << http_client, created, released, args, try_i, send_headers,
                  response, result, send_url, headerVars, peer >>

\* the solver's connection is closed (the end of `async with`), and the loop
\* goes on: the next attempt is sent, or the tries are used up
SolverExit(c) ==
  /\ pc[c] = "solver_exit"
  /\ answer' = [answer EXCEPT ![c] = NoAnswer]
  /\ IF HasNextTry(try_i[c])
       THEN /\ try_i' = [try_i EXCEPT ![c] = @ + 1]
            /\ LET h == IF headers_given[c] THEN caller_headers[c] ELSE default_headers
                   a == AttemptHeaders(h, user_agent) IN
                 /\ send_headers' = [send_headers EXCEPT ![c] = a.sent]
                 /\ caller_headers' = [caller_headers EXCEPT ![c] = a.headers]
                 /\ default_headers' = IF headers_given[c] THEN default_headers
                                        ELSE a.headers
            /\ send_url' = [send_url EXCEPT ![c] = SendTarget(args[c])]
            /\ pc' = [pc EXCEPT ![c] = "transport"]
            /\ log' = [log EXCEPT ![c] = @ \o <<"send">>]
            /\ UNCHANGED err
       ELSE /\ pc' = [pc EXCEPT ![c] = "raised"]
            /\ err' = [err EXCEPT ![c] = MaxTriesExceeded]
            /\ log' = [log EXCEPT ![c] = @ \o <<"raise">>]
            /\ UNCHANGED << try_i, send_headers, send_url, default_headers,
                            caller_headers >>
  /\ UNCHANGED << user_agent, http_client, created, released, jar, args,
                  response, result, solver_request, solved_ua, solved_pool,
                  headers_given, peerVars >>

\* the caller cancels the call while it waits (asyncio delivers the
\* cancellation at an await)
Cancel(c) ==
  /\ pc[c] \in InFlight
  /\ pc' = [pc EXCEPT ![c] = "cancelled"]
  /\ err' = [err EXCEPT ![c] = CancelledError]
  /\ solver_request' = [solver_request EXCEPT ![c] = NoRequest]
  /\ answer' = [answer EXCEPT ![c] = NoAnswer]
  /\ log' = [log EXCEPT ![c] = @ \o <<"cancel">>]
  /\ UNCHANGED << user_agent, http_client, created, released, jar, args, try_i,
                  send_headers, response, result, solved_ua,
                  solved_pool, send_url, headerVars, peerVars >>

\* ------------------------------------------------------------------------
\* A second instance of the class
\* ------------------------------------------------------------------------
\* the variables of the first instance
instanceVars == << user_agent, http_client, created, released, jar, pc, args,
                   try_i, send_headers, response, result, err, solver_request,
                   answer, log, solved_ua, solved_pool, send_url, headerVars >>

\* self._user_agent read on the second instance: its own attribute if it
\* has one, else the attribute of the class
PeerUserAgent ==
  IF peer.user_agent = "unset" THEN class_user_agent ELSE peer.user_agent

\* AsyncClient(solver_url): __init__ stores _solver_url, _args and _kwargs
PeerInit ==
  /\ ~peer.made
  /\ peer' = [peer EXCEPT !.made = TRUE]
  /\ UNCHANGED << instanceVars, class_user_agent >>

\* __aenter__ of the second instance: a pool of its own, with an empty jar
PeerOpen ==
  /\ peer.made
  /\ peer.http_client = 0
  /\ peer' = [peer EXCEPT !.http_client = 1, !.jar = {}]
  /\ UNCHANGED << instanceVars, class_user_agent >>

\* the second instance handles the answer a of the solver to a challenge of
\* its own, a solution with a userAgent: lines 162 to 172 on its session
PeerSolve(a) ==
  /\ peer.http_client # 0
  /\ SolverStatusOk(a.status_code)
  /\ HasSolution(a.json)
  /\ "userAgent" \in DOMAIN a.json.solution
  /\ LET s == ApplySolution(PeerUserAgent, peer.jar, a.json.solution, peer.http_client)
         w == StoreUserAgent(class_user_agent, s.user_agent) IN
       /\ peer' = [peer EXCEPT !.user_agent = w.instance, !.jar = s.jar]
       /\ class_user_agent' = w.class
  /\ UNCHANGED instanceVars

\* ------------------------------------------------------------------------
\* Specifications
\* ------------------------------------------------------------------------
\* the calls the model makes: method and solve_url
CallKinds == { <<"get", None>>, <<"post", None>>, <<"post", SolveUrl>> }

NoneInFlight == \A c \in Calls : pc[c] \notin InFlight

\* One caller drives the instance: calls one after the other, the scope
\* opened and closed between calls.
SerialCalls == {"c1"}

Next ==
  \/ NoneInFlight /\ Open
  \/ NoneInFlight /\ Close
  \/ \E c \in SerialCalls, k \in CallKinds, h \in CallerHeaders :
       NoneInFlight /\ Request(c, k[1], Url, k[2], h)
  \/ \E c \in SerialCalls, k \in CallKinds :
       NoneInFlight /\ RequestDefault(c, k[1], Url, k[2])
  \/ \E c \in SerialCalls, r \in SiteResponses : TransportRespond(c, r)
  \/ \E c \in SerialCalls, a \in SolverAnswers : SolverRespond(c, a)
  \/ \E c \in SerialCalls : SolverExit(c)
  \/ \E c \in SerialCalls : Cancel(c)

Spec == Init /\ [][Next]_vars

\* Several coroutines share the instance: a call may start, and any answer
\* may arrive, while other calls wait.  Nothing in the source locks the
\* session, so every interleaving of the steps between awaits is possible.
\* The inputs are a part of those of Spec.
ConcResponses ==
  { Response(200, HtmlType, {"<title>Just a moment...</title>"}, SiteCookie),
    Response(403, HtmlType, {"<title>Just a moment...</title>"}, NoCookie),
    Response(403, HtmlType, {"<title>Access denied | Cloudflare</title>"}, NoCookie) }

ConcAnswers ==
  { [status_code |-> 500, json |-> [status |-> "error"]],
    [status_code |-> 200, json |-> [solution |->
       [userAgent |-> "UA1", cookies |-> << [name |-> "cf_clearance", value |-> "v1"] >>]]],
    [status_code |-> 200, json |-> [solution |->
       [userAgent |-> "UA2", cookies |->
          << [name |-> "cf_clearance", value |-> "v2"],
             [name |-> "cf_clearance", value |-> "v1", domain |-> "example.com",
              path |-> "/app"] >>]]],
    [status_code |-> 200, json |-> [solution |->
       [userAgent |-> "UA2", cookies |->
          << [name |-> "cf_clearance", value |-> "v2"], [name |-> "cf_clearance"] >>]]] }

NextConc ==
  \/ NoneInFlight /\ Open
  \/ NoneInFlight /\ Close
  \/ \E c \in Calls : RequestDefault(c, "get", Url, None)
  \/ \E c \in Calls, r \in ConcResponses : TransportRespond(c, r)
  \/ \E c \in Calls, a \in ConcAnswers : SolverRespond(c, a)
  \/ \E c \in Calls : SolverExit(c)
  \/ \E c \in Calls : Cancel(c)

SpecConc == Init /\ [][NextConc]_vars

\* The classification tried on every response the site can give within
\* the bounds: each status and content-type with each page of at most
\* MaxLines lines.  One caller, calls without headers, two solver answers.
Statuses == {200, 403, 404}
ContentTypes == {HtmlType, JsonType, NoType}
Pages == { t \in SUBSET Lines : Cardinality(t) <= MaxLines }

ClassifierResponses ==
  { Response(s, ct, t, NoCookie) : s \in Statuses, ct \in ContentTypes, t \in Pages }

ClassifierAnswers ==
  { [status_code |-> 500, json |-> [status |-> "error"]],
    [status_code |-> 200, json |-> [solution |->
       [userAgent |-> "UA1", cookies |-> << [name |-> "cf_clearance", value |-> "v1"] >>]]] }

NextClassify ==
  \/ \E c \in SerialCalls : NoneInFlight /\ RequestDefault(c, "get", Url, None)
  \/ \E c \in SerialCalls, r \in ClassifierResponses : TransportRespond(c, r)
  \/ \E c \in SerialCalls, a \in ClassifierAnswers : SolverRespond(c, a)
  \/ \E c \in SerialCalls : SolverExit(c)
  \/ \E c \in SerialCalls : Cancel(c)

SpecClassify == Init /\ [][NextClassify]_vars

\* Two instances of AsyncClient in one process: the first with one caller
\* and the inputs of SpecConc, the second constructed at any moment and
\* solving challenges of its own.
NextPeer ==
  \/ NoneInFlight /\ Open
  \/ NoneInFlight /\ Close
  \/ \E c \in SerialCalls : NoneInFlight /\ RequestDefault(c, "get", Url, None)
  \/ \E c \in SerialCalls, r \in ConcResponses : TransportRespond(c, r)
  \/ \E c \in SerialCalls, a \in ConcAnswers : SolverRespond(c, a)
  \/ \E c \in SerialCalls : SolverExit(c)
  \/ \E c \in SerialCalls : Cancel(c)
  \/ PeerInit
  \/ PeerOpen
  \/ \E a \in ConcAnswers : PeerSolve(a)

SpecPeer == Init /\ [][NextPeer]_vars

\* ------------------------------------------------------------------------
\* Properties
\* ------------------------------------------------------------------------
\* number of entries e in the log of a call
Count(seq, e) == Cardinality({ i \in DOMAIN seq : seq[i] = e })

\* the log of call c ends with entry e at position i followed by `last`
EndsAt(c, i, last) == Len(log[c]) = i + 1 /\ log[c][i + 1] = last

\* C1: a call sends at most max_tries (2) times; a call whose 2 attempts were
\* all classified CHALLENGE and whose solver calls all succeeded returns no
\* response and ends with the retries-exceeded exception, whose message
\* names the maximum, "2".
C1_BoundedTries ==
  \A c \in Calls :
    /\ Count(log[c], "send") <= 2
    /\ ( /\ Count(log[c], "CHALLENGE") = 2
         /\ Count(log[c], "applied") = 2
         /\ pc[c] \notin {"solver_exit", "cancelled"} )
       => /\ pc[c] = "raised"
          /\ err[c].type = "AsyncClient.Exception"
          /\ err[c].text[1] = "Can't solve challenge: challenge got "
          /\ err[c].text[2] = "2"
          /\ result[c] = NoResponse

C1_Witness ==
  \E c \in Calls :
    /\ pc[c] = "raised"
    /\ log[c] = <<"send", "CHALLENGE", "solve", "applied",
                  "send", "CHALLENGE", "solve", "applied", "raise">>

\* C2: an attempt classified HARD_BLOCK, first or retried, ends the call at
\* once with CloudFlareBlocked: nothing follows it in the call (no solver
\* call, no send), and a hard block on the first attempt leaves the call
\* with no solver call at all.
C2_HardBlockIsTerminal ==
  \A c \in Calls : \A i \in DOMAIN log[c] :
    log[c][i] = "HARD_BLOCK" =>
      /\ EndsAt(c, i, "raise")
      /\ log[c][i - 1] = "send"
      /\ pc[c] = "raised"
      /\ err[c] = CloudFlareBlocked
      /\ result[c] = NoResponse
      /\ solver_request[c] = NoRequest
      /\ Classify(response[c]) = "HARD_BLOCK"
      /\ (i = 2 => Count(log[c], "solve") = 0)

C2_Witness ==
  \E c \in Calls :
    /\ pc[c] = "raised"
    /\ err[c] = CloudFlareBlocked
    /\ log[c] = <<"send", "CHALLENGE", "solve", "applied", "send", "HARD_BLOCK", "raise">>

\* C3: an attempt classified OK or UNRELATED-403, whatever its number, ends
\* the call with success: the call returns the response of that attempt,
\* raises nothing, and no solver call or send follows.
C3_PassThrough ==
  \A c \in Calls : \A i \in DOMAIN log[c] :
    log[c][i] \in {"OK", "UNRELATED_403"} =>
      /\ EndsAt(c, i, "return")
      /\ log[c][i - 1] = "send"
      /\ pc[c] = "returned"
      /\ result[c] = response[c]
      /\ Classify(result[c]) = log[c][i]
      /\ err[c] = NoError
      /\ solver_request[c] = NoRequest

C3_Witness ==
  \E c \in Calls :
    /\ pc[c] = "returned"
    /\ result[c].status_code = 403
    /\ log[c] = <<"send", "CHALLENGE", "solve", "applied", "send", "UNRELATED_403", "return">>

\* C4: in one call every attempt classified CHALLENGE is followed at once by
\* exactly one solver call, the last permitted attempt included; a solver
\* call is made only right after a CHALLENGE classification; a retry is
\* sent only right after the solution of that solver call was applied.
C4_OneSolvePerChallenge ==
  \A c \in Calls :
    /\ \A i \in DOMAIN log[c] :
         /\ log[c][i] = "CHALLENGE" =>
              /\ i < Len(log[c])
              /\ log[c][i + 1] = "solve"
              /\ (i + 2 <= Len(log[c]) => log[c][i + 2] # "solve")
         /\ log[c][i] = "solve" => log[c][i - 1] = "CHALLENGE"
         /\ log[c][i] = "applied" => log[c][i - 1] = "solve"
         /\ (log[c][i] = "send" /\ i > 1) => log[c][i - 1] = "applied"
    /\ Count(log[c], "solve") = Count(log[c], "CHALLENGE")
    /\ pc[c] = "solver" =>
         /\ Classify(response[c]) = "CHALLENGE"
         /\ solver_request[c] # NoRequest
         /\ log[c][Len(log[c])] = "solve"
    /\ pc[c] # "solver" => solver_request[c] = NoRequest
    /\ (pc[c] = "transport" /\ try_i[c] > 0) => user_agent = solved_ua

C4_Witness ==
  \E c \in Calls :
    /\ pc[c] = "solver"
    /\ try_i[c] = max_tries - 1
    /\ log[c] = <<"send", "CHALLENGE", "solve", "applied", "send", "CHALLENGE", "solve">>

\* a field of a solver cookie entry, or the default when the entry lacks it
Field(e, key, default) == IF key \in DOMAIN e THEN e[key] ELSE default

\* the jar holds a cookie with this name and value under (name, domain, path)
Holds(j, name, value, domain, path) ==
  \E k \in j : k.name = name /\ k.value = value /\ k.domain = domain /\ k.path = path

\* entries i and j of a cookie list are filed under the same key
SameEntryKey(cs, i, j) ==
  /\ cs[i].name = cs[j].name
  /\ Field(cs[i], "domain", "") = Field(cs[j], "domain", "")
  /\ Field(cs[i], "path", "/") = Field(cs[j], "path", "/")

\* C5 as stated: after a successful solver call the user-agent is the
\* solver's userAgent and the jar holds every cookie of the solver's list,
\* with its name and value, under (name, domain or "", path or "/").
C5_EveryCookieHeld ==
  \A c \in Calls :
    pc[c] = "solver_exit" =>
      LET sol == answer[c].json.solution IN
      /\ user_agent = sol.userAgent
      /\ \A i \in DOMAIN sol.cookies :
           Holds(jar, sol.cookies[i].name, sol.cookies[i].value,
                 Field(sol.cookies[i], "domain", ""), Field(sol.cookies[i], "path", "/"))

\* C5 amended: after a successful solver call the user-agent is the solver's
\* userAgent, the jar holds a cookie under the key (name, domain or "",
\* path or "/") of every cookie of the solver's list, and its value is that
\* of the last cookie of the list with that key.
C5_LastCookiePerKeyHeld ==
  \A c \in Calls :
    pc[c] = "solver_exit" =>
      LET sol == answer[c].json.solution
          cs == sol.cookies IN
      /\ user_agent = sol.userAgent
      /\ \A i \in DOMAIN cs :
           /\ \E k \in jar : SameKey(k, cs[i].name, Field(cs[i], "domain", ""),
                                     Field(cs[i], "path", "/"))
           /\ (\A j \in DOMAIN cs : j > i => ~SameEntryKey(cs, i, j)) =>
                Holds(jar, cs[i].name, cs[i].value,
                      Field(cs[i], "domain", ""), Field(cs[i], "path", "/"))

C5_Witness ==
  \E c \in Calls :
    /\ pc[c] = "solver_exit"
    /\ user_agent = "UA2"
    /\ answer[c].json.solution.cookies =
         << [name |-> "cf_clearance", value |-> "v2"],
            [name |-> "cf_clearance", value |-> "v1", domain |-> "example.com", path |-> "/app"] >>
    /\ Holds(jar, "cf_clearance", "v2", "", "/")
    /\ Holds(jar, "cf_clearance", "v1", "example.com", "/app")

\* C6 as stated: every attempt is sent with cache-control "no-cache" and
\* with the session user-agent, which is the default before any successful
\* solve on the instance and afterwards the userAgent of the most recent
\* successful solve, whatever the caller's headers say.
C6_SendsCarrySolvedAgent ==
  \A c \in Calls :
    pc[c] = "transport" =>
      /\ send_headers[c]["cache-control"] = "no-cache"
      /\ send_headers[c]["user-agent"] = user_agent
      /\ send_headers[c]["user-agent"] = solved_ua

\* C7: when the solver answers with a status other than 200 the call ends
\* with the solver-unavailable exception: the solver call is the last thing
\* the call did (no second solver call, no send) and nothing is returned.
C7_SolverUnavailable ==
  \A c \in Calls :
    answer[c].status_code \notin {0, 200} =>
      /\ pc[c] = "raised"
      /\ err[c].type = "AsyncClient.Exception"
      /\ err[c].text = <<"Solver is unavailable: status_code = ", Str(answer[c].status_code)>>
      /\ result[c] = NoResponse
      /\ Len(log[c]) >= 3
      /\ SubSeq(log[c], Len(log[c]) - 2, Len(log[c])) = <<"solve", "solver_error", "raise">>

C7_Witness ==
  \E c \in Calls :
    /\ pc[c] = "raised"
    /\ answer[c].status_code = 500
    /\ log[c] = <<"send", "CHALLENGE", "solve", "applied",
                  "send", "CHALLENGE", "solve", "solver_error", "raise">>

\* the solver answered 200 with a JSON object that has no `solution` key
AnsweredWithoutSolution(a) == a.status_code = 200 /\ "solution" \notin DOMAIN a.json

\* C8: when the solver answers 200 with a JSON object without `solution`
\* the call ends with the solver-protocol exception, whose message holds the
\* url given to the solver, the solver's answer and the solve request that
\* was sent; no retry follows.
C8_NoSolutionMessage ==
  /\ [](\A c \in Calls :
          AnsweredWithoutSolution(answer[c]) =>
            LET target == IF args[c].solve_url = None THEN args[c].url
                          ELSE args[c].solve_url IN
            /\ pc[c] = "raised"
            /\ err[c].type = "AsyncClient.Exception"
            /\ err[c].text[1] = "Can't solve challenge: no solution in response for '"
            /\ err[c].text[2] = target
            /\ \E i \in DOMAIN err[c].text : err[c].text[i] = "response: "
            /\ \E i \in DOMAIN err[c].text : err[c].text[i] = " on request: "
            /\ err[c].url = target
            /\ err[c].response = answer[c].json
            /\ err[c].request.url = target
            /\ err[c].request.maxTimeout = 60000
            /\ result[c] = NoResponse
            /\ SubSeq(log[c], Len(log[c]) - 2, Len(log[c])) =
                 <<"solve", "solver_error", "raise">>)
  /\ [][ \A c \in Calls :
          (pc[c] = "solver" /\ AnsweredWithoutSolution(answer'[c])) =>
            err'[c].request = solver_request[c] ]_vars

C8_Witness ==
  \E c \in Calls :
    /\ pc[c] = "raised"
    /\ answer[c] = [status_code |-> 200, json |-> [status |-> "error"]]
    /\ args[c].solve_url = SolveUrl
    /\ err[c].url = SolveUrl
    /\ err[c].request.cookies # {}

\* C9 as stated: a solver call that ends in an exception leaves the session
\* as it was: the user-agent and the cookie jar are those from before that
\* solver call (the user-agent changes only with a successful solve).
C9_FailedSolveLeavesSession ==
  [][ \A c \in Calls :
        (pc[c] = "solver" /\ pc'[c] = "raised") =>
          (user_agent' = user_agent /\ jar' = jar) ]_vars

\* C10 as stated: a solution is applied in one step or not at all.  A step
\* that ends a solver call either leaves the user-agent and the jar as they
\* were, or stores the solver's userAgent together with a cookie under the
\* key of every cookie of its list; a cancellation changes neither.  So no
\* state, under any interleaving of calls, shows the user-agent of a solve
\* without that solve's cookies.
C10_AppliedWhollyOrNotAtAll ==
  [][ \A c \in Calls :
        /\ (pc[c] \in InFlight /\ pc'[c] = "cancelled") =>
             (user_agent' = user_agent /\ jar' = jar)
        /\ (pc[c] = "solver" /\ pc'[c] \notin {"solver", "cancelled"}) =>
             \/ user_agent' = user_agent /\ jar' = jar
             \/ /\ pc'[c] = "solver_exit"
                /\ user_agent' = answer'[c].json.solution.userAgent
                /\ \A i \in DOMAIN answer'[c].json.solution.cookies :
                     LET e == answer'[c].json.solution.cookies[i] IN
                     \E k \in jar' :
                       SameKey(k, e.name, Field(e, "domain", ""), Field(e, "path", "/"))
    ]_vars

\* ------------------------------------------------------------------------
\* Scope of the instance: session and pool
\* ------------------------------------------------------------------------
\* the step is __aenter__: a pool is created and no call moves
OpenStep == created' = created + 1 /\ pc' = pc

\* C11 as stated: right after the scope opens the session is fresh: the
\* user-agent is the fixed default and the jar is empty, also when a
\* previous scope of the instance solved a challenge.  (Stated for the
\* sessions whose user-agent is the default or that of a solve that ran to
\* its end, so that a trace does not go through a failed solve.)
C11_FreshSessionOnOpen ==
  [][ (OpenStep /\ user_agent = solved_ua) =>
        (user_agent' = DefaultUserAgent /\ jar' = {}) ]_vars

\* C12 as stated: once the scope is closed (the instance has no pool) every
\* pool the instance created has been released, whatever sequence of open,
\* get/post and close came before.
C12_EveryPoolReleased ==
  http_client = 0 => released = 1..created

\* every key filed in jar j is filed in jar k
KeysKept(j, k) == \A x \in j : \E y \in k : SameKey(y, x.name, x.domain, x.path)

\* the step starts a call on a pool on which a solve has run to its end
LaterCallStarts(c) ==
  /\ pc[c] \notin InFlight
  /\ pc'[c] = "transport"
  /\ solved_pool # 0
  /\ solved_pool = http_client

\* C13 as stated: once a solve has run to its end on the pool of the scope,
\* every later call of the scope sends its first attempt with the userAgent
\* of the last such solve; the cookies a solve filed stay in the jar as long
\* as the pool stays (a step that keeps the pool keeps every key of the
\* jar, and a solve that ends well has filed the key of each of its
\* cookies); and a call reaches the solver only from an attempt of its own
\* that was classified CHALLENGE.
C13_LaterCallsUseSolvedSession ==
  [][ \A c \in Calls :
        /\ LaterCallStarts(c) =>
             /\ send_headers'[c]["user-agent"] = solved_ua
             /\ http_client' = http_client
        /\ (pc[c] = "solver" /\ pc'[c] = "solver_exit") =>
             \A i \in DOMAIN answer'[c].json.solution.cookies :
               LET e == answer'[c].json.solution.cookies[i] IN
               \E k \in jar' :
                 SameKey(k, e.name, Field(e, "domain", ""), Field(e, "path", "/"))
        /\ http_client' = http_client => KeysKept(jar, jar')
        /\ (pc[c] # "solver" /\ pc'[c] = "solver") =>
             /\ pc[c] = "transport"
             /\ Classify(response'[c]) = "CHALLENGE"
    ]_vars

\* ------------------------------------------------------------------------
\* The classification
\* ------------------------------------------------------------------------
\* the content-types of the model that do not start with text/html
NonHtmlTypes == {JsonType, NoType}

\* the response is not a 403 text/html page with a body
NotA403Page(r) ==
  r.status_code # 403 \/ r.content_type \in NonHtmlTypes \/ r.text = {}

\* C14: a response whose status is not 403, or whose content-type does not
\* start with text/html, or whose body is empty is classified OK whatever
\* its body holds: the call returns that response, raises nothing, and
\* nothing (no solver call, no send) follows the attempt.
C14_NonCandidateIsOk ==
  \A c \in Calls :
    (response[c] # NoResponse /\ NotA403Page(response[c])) =>
      /\ pc[c] = "returned"
      /\ result[c] = response[c]
      /\ err[c] = NoError
      /\ solver_request[c] = NoRequest
      /\ Len(log[c]) >= 3
      /\ SubSeq(log[c], Len(log[c]) - 2, Len(log[c])) = <<"send", "OK", "return">>

C14_Witness ==
  \E c \in Calls :
    /\ pc[c] = "returned"
    /\ result[c] = Response(403, JsonType,
                            {"<title>Access denied | Cloudflare</title>",
                             "<title>Just a moment...</title>"}, NoCookie)
    /\ log[c] = <<"send", "CHALLENGE", "solve", "applied", "send", "OK", "return">>

\* the four tags of the classification
Tags == {"OK", "HARD_BLOCK", "CHALLENGE", "UNRELATED_403"}

\* the place of the last send in the log of a call
LastSend(c) ==
  CHOOSE i \in DOMAIN log[c] :
    log[c][i] = "send" /\ \A j \in DOMAIN log[c] : j > i => log[c][j] # "send"

\* the number of tags among the entries of a log from place i on
TagsFrom(c, i) == Cardinality({ j \in DOMAIN log[c] : j >= i /\ log[c][j] \in Tags })

\* C15: every response gets exactly one of the four tags, by the rules in
\* their order: OK unless it is a 403 text/html page with a body; else
\* HARD_BLOCK when a hard-block pattern matches, also when a challenge pair
\* matches too (the call raises CloudFlareBlocked and makes no solver
\* call); else CHALLENGE when a challenge pair matches; else UNRELATED-403
\* (the call returns the response).
C15_OneTagRulesInOrder ==
  \A c \in Calls :
    (response[c] # NoResponse /\ pc[c] \in {"solver", "solver_exit", "raised", "returned"}) =>
      LET r == response[c]
          tag == log[c][LastSend(c) + 1]
          page == Lower(r.text)
          hard == IsHardBlock(page)
          challenge == IsChallenge(page) IN
      /\ tag \in Tags
      /\ TagsFrom(c, LastSend(c)) = 1
      /\ tag = "OK" <=> NotA403Page(r)
      /\ tag = "HARD_BLOCK" <=> (~NotA403Page(r) /\ hard)
      /\ tag = "CHALLENGE" <=> (~NotA403Page(r) /\ ~hard /\ challenge)
      /\ tag = "UNRELATED_403" <=> (~NotA403Page(r) /\ ~hard /\ ~challenge)
      /\ (~NotA403Page(r) /\ hard /\ challenge) =>
           /\ pc[c] = "raised"
           /\ err[c] = CloudFlareBlocked
           /\ result[c] = NoResponse
           /\ SubSeq(log[c], LastSend(c), Len(log[c])) = <<"send", "HARD_BLOCK", "raise">>
      /\ (~NotA403Page(r) /\ ~hard /\ ~challenge) =>
           /\ pc[c] = "returned"
           /\ result[c] = r
           /\ err[c] = NoError
           /\ SubSeq(log[c], LastSend(c), Len(log[c])) = <<"send", "UNRELATED_403", "return">>

C15_Witness ==
  \E c \in Calls :
    /\ pc[c] = "raised"
    /\ err[c] = CloudFlareBlocked
    /\ response[c] = Response(403, HtmlType,
                              {"<title>Access denied | Cloudflare</title>",
                               "<title>Just a moment...</title>"}, NoCookie)
    /\ log[c] = <<"send", "HARD_BLOCK", "raise">>

\* ------------------------------------------------------------------------
\* The solve request
\* ------------------------------------------------------------------------
\* C16: the solver is asked to solve solve_url when the caller gave one and
\* the url of the request otherwise; every attempt of the call, the first
\* and the retries, is sent to the url of the request, never to solve_url.
C16_SolveUrlOnlyForSolver ==
  \A c \in Calls :
    /\ pc[c] = "solver" =>
         solver_request[c].url =
           (IF args[c].solve_url # None THEN args[c].solve_url ELSE args[c].url)
    /\ pc[c] # "idle" =>
         /\ send_url[c] = args[c].url
         /\ send_url[c] # SolveUrl

C16_Witness ==
  \E c \in Calls :
    /\ pc[c] = "solver"
    /\ try_i[c] = 1
    /\ args[c].solve_url = SolveUrl
    /\ solver_request[c].url = SolveUrl
    /\ send_url[c] = Url

\* at most one cookie of the jar under each key (name, domain, path)
OneCookiePerKey(j) ==
  \A x, y \in j : (x.name = y.name /\ x.domain = y.domain /\ x.path = y.path) => x = y

\* the solver list holds an entry with the key of the jar cookie x
ReturnedKeyOf(cookies, x) ==
  \E i \in DOMAIN cookies :
    /\ cookies[i].name = x.name
    /\ Field(cookies[i], "domain", "") = x.domain
    /\ Field(cookies[i], "path", "/") = x.path

\* C17: a solve never removes cookies and never replaces the jar.  The step
\* that ends a solver call, well or with an exception, keeps every key
\* (name, domain, path) of the jar; when the solve ends well a cookie is
\* changed only if the solver returned a cookie with its key; when the
\* solver answers without a usable solution the jar is left as it was.
\* And the jar never holds two cookies under one key.
C17_SolveKeepsCookies ==
  /\ [](OneCookiePerKey(jar))
  /\ [][ \A c \in Calls :
           (pc[c] = "solver" /\ pc'[c] \in {"solver_exit", "raised"}) =>
             /\ \A x \in jar : \E y \in jar' :
                  x.name = y.name /\ x.domain = y.domain /\ x.path = y.path
             /\ pc'[c] = "solver_exit" =>
                  \A x \in jar :
                    x \in jar' \/ ReturnedKeyOf(answer'[c].json.solution.cookies, x)
             /\ (pc'[c] = "raised" /\ answer'[c] # NoAnswer) => jar' = jar
       ]_vars

C17_Witness ==
  \E c \in Calls :
    /\ pc[c] = "solver_exit"
    /\ try_i[c] = 1
    /\ SiteCookie \in jar
    /\ Holds(jar, "cf_clearance", "v2", "", "/")
    /\ Holds(jar, "cf_clearance", "v1", "example.com", "/app")
    /\ Cardinality(jar) = 3
    /\ Len(answer[c].json.solution.cookies) = 1

\* the dict d of a solve request is the snapshot of the jar cookie k
SnapshotOf(d, k) ==
  /\ d.name = k.name /\ d.value = k.value
  /\ d.domain = k.domain /\ d.path = k.path
  /\ d.port = k.port /\ d.secure = k.secure /\ d.expires = k.expires

\* C18: the request of each solver call is built when the call is made: its
\* cookies are the cookies the jar holds at that moment, each with its
\* seven fields, no more and no fewer (those set by the transport, the one
\* of the challenge page included, and those of earlier solves); its
\* maxTimeout is 60000 and its url is the solve target.
C18_RequestIsJarSnapshot ==
  [][ \A c \in Calls :
        (pc[c] # "solver" /\ pc'[c] = "solver") =>
          LET req == solver_request'[c] IN
          /\ req.maxTimeout = 60000
          /\ req.url = (IF args[c].solve_url # None THEN args[c].solve_url ELSE args[c].url)
          /\ \A k \in jar' : \E d \in req.cookies : SnapshotOf(d, k)
          /\ \A d \in req.cookies : \E k \in jar' : SnapshotOf(d, k)
          /\ Cardinality(req.cookies) = Cardinality(jar')
    ]_vars

C18_Witness ==
  \E c \in Calls :
    /\ pc[c] = "solver"
    /\ try_i[c] = 1
    /\ Cardinality(solver_request[c].cookies) = 2
    /\ \E d \in solver_request[c].cookies : d.name = "sid" /\ d.value = "s1" /\ d.secure
    /\ \E d \in solver_request[c].cookies :
         d.name = "cf_clearance" /\ d.value = "v1" /\ d.domain = "" /\ d.path = "/"
    /\ solver_request[c].maxTimeout = 60000

\* ------------------------------------------------------------------------
\* Two instances
\* ------------------------------------------------------------------------
\* C19: the session belongs to the instance.  An instance that has not
\* solved anything itself, a new one included, uses the fixed default
\* user-agent whatever other instances have solved; a step that ends a
\* solver call of one instance leaves the user-agent and the jar of the
\* other as they were.
C19_SessionPerInstance ==
  /\ []((peer.made /\ peer.user_agent = "unset") => PeerUserAgent = DefaultUserAgent)
  /\ [][ /\ (~peer.made /\ peer'.made) =>
              (PeerUserAgent' = DefaultUserAgent /\ peer'.jar = {})
         /\ (\E c \in Calls : pc[c] = "solver" /\ pc'[c] # "solver") =>
              (PeerUserAgent' = PeerUserAgent /\ peer'.jar = peer.jar)
         /\ (peer.made /\ peer'.made /\ peer' # peer) =>
              (user_agent' = user_agent /\ jar' = jar)
       ]_vars

C19_Witness ==
  /\ peer.made
  /\ peer.user_agent = "unset"
  /\ peer.http_client # 0
  /\ peer.jar = {}
  /\ user_agent = "UA2"
  /\ solved_ua = "UA2"
  /\ solved_pool # 0
  /\ Cardinality(jar) = 2

\* ------------------------------------------------------------------------
\* The headers of the caller
\* ------------------------------------------------------------------------
\* C20: a call leaves the mapping it was given as `headers` as it found it,
\* and the default mapping of _request stays empty: at every moment of a
\* call, and after it has returned or raised, the mapping of the caller has
\* the keys and values it was passed with, and a call made without headers
\* sends the two headers of the session and nothing left by another call.
C20_HeadersLeftAlone ==
  /\ default_headers = EmptyHeaders
  /\ \A c \in Calls :
       pc[c] # "idle" =>
         /\ caller_headers[c] = args[c].headers
         /\ headers_given[c] => caller_headers[c] \in CallerHeaders
         /\ ~headers_given[c] =>
              /\ caller_headers[c] = EmptyHeaders
              /\ DOMAIN send_headers[c] = {"user-agent", "cache-control"}
         /\ \A k \in DOMAIN args[c].headers \ {"user-agent", "cache-control"} :
              send_headers[c][k] = args[c].headers[k]

C20_Witness ==
  \E c \in Calls :
    /\ pc[c] = "returned"
    /\ try_i[c] = 1
    /\ headers_given[c]
    /\ caller_headers[c]["user-agent"] = "caller-agent"
    /\ caller_headers[c]["cache-control"] = "max-age=60"
    /\ send_headers[c]["user-agent"] = "UA1"
    /\ send_headers[c]["cache-control"] = "no-cache"

====
